---- MODULE Spec2Model ----
(***************************************************************************)
(* A model of function.py: the Lambda-style entry point handler(event,    *)
(* context), which ignores both arguments and returns a fixed response     *)
(* envelope whose body is json.dumps({'message': 'Ok Boomer'}).            *)
(*                                                                         *)
(* Python objects live in a heap of cells addressed by integers; mutable   *)
(* objects (dict) are passed and returned by reference.  Several           *)
(* invocations of handler may be in flight at once (the host may run it on *)
(* several threads); a thread switch may fall between the evaluation of    *)
(* any two operands of the dict display of lines 5-11.                     *)
(***************************************************************************)
EXTENDS Integers, Sequences, FiniteSets, TLC

\* Number of invocations that may be in flight or held by a caller at once.
MaxInvocations == 2

Invocations == 1..MaxInvocations

\* Every invocation holds at most five heap cells: the event, the context,
\* the headers dict, the multiValueHeaders dict and the envelope.
CellsPerInvocation == 5

Addrs == 1..(CellsPerInvocation * MaxInvocations)

----------------------------------------------------------------------------
(* Python values.  A str is a sequence of one-character strings, so that   *)
(* serialisation is computed character by character.  A dict is its        *)
(* sequence of <<key, value>> items in insertion order.                    *)

PyNone == [t |-> "None"]

PyBool(b) == [t |-> "bool", v |-> b]

PyInt(n) == [t |-> "int", v |-> n]

PyStr(s) == [t |-> "str", v |-> s]

PyDict(items) == [t |-> "dict", v |-> items]

\* An instance of a class the json encoder knows nothing about.
PyObject(cls) == [t |-> "object", v |-> cls]

Ref(a) == [t |-> "ref", v |-> a]

\* A heap cell that holds no object.
Free == [t |-> "free"]

IsRef(x) == x.t = "ref"

\* The object a value denotes: a reference is followed into the heap.
Deref(h, x) == IF IsRef(x) THEN h[x.v] ELSE x

s_isBase64Encoded == <<"i","s","B","a","s","e","6","4","E","n","c","o","d","e","d">>

s_statusCode == <<"s","t","a","t","u","s","C","o","d","e">>

s_headers == <<"h","e","a","d","e","r","s">>

s_multiValueHeaders == <<"m","u","l","t","i","V","a","l","u","e","H","e","a","d","e","r","s">>

s_body == <<"b","o","d","y">>

s_content == <<"c","o","n","t","e","n","t">>

s_application_json == <<"a","p","p","l","i","c","a","t","i","o","n","/","j","s","o","n">>

s_Content_Type == <<"C","o","n","t","e","n","t","-","T","y","p","e">>

s_context == <<"c","o","n","t","e","x","t">>

s_handled == <<"h","a","n","d","l","e","d">>

s_message == <<"m","e","s","s","a","g","e">>

s_Ok_Boomer == <<"O","k"," ","B","o","o","m","e","r">>

----------------------------------------------------------------------------
(* dict operations *)

Keys(d) == {d.v[n][1] : n \in 1..Len(d.v)}

HasKey(d, k) == \E n \in 1..Len(d.v) : d.v[n][1] = k

\* d[k], for a key that is present
GetItem(d, k) == d.v[CHOOSE n \in 1..Len(d.v) : d.v[n][1] = k][2]

\* d[k] = x: an existing key keeps its position, a new key is appended
SetItem(d, k, x) ==
    IF HasKey(d, k)
    THEN PyDict([n \in 1..Len(d.v) |-> IF d.v[n][1] = k THEN <<k, x>> ELSE d.v[n]])
    ELSE PyDict(Append(d.v, <<k, x>>))

----------------------------------------------------------------------------
(* json.dumps with its default arguments: separators (', ', ': '), no      *)
(* indentation, keys in insertion order.  The result is either the text or *)
(* the exception the encoder raises.                                       *)

Text(s) == [ok |-> TRUE, s |-> s]

Raised(exc) == [ok |-> FALSE, exc |-> exc]

\* json.dumps default item separator ', '
ItemSeparator == <<",", " ">>

\* separators=(',', ':') in place of the default
KeySeparatorCompact == <<":">>

\* json.dumps default key separator ': '
KeySeparator == <<":", " ">>

DigitChar(d) == <<"0","1","2","3","4","5","6","7","8","9">>[d + 1]

RECURSIVE Digits(_)
Digits(n) == IF n < 10 THEN <<DigitChar(n)>> ELSE Digits(n \div 10) \o <<DigitChar(n % 10)>>

\* the encoder's escaping of a str: a quote and a backslash get a backslash
RECURSIVE Escape(_)
Escape(s) ==
    IF s = <<>> THEN <<>>
    ELSE (IF Head(s) \in {"\"", "\\"} THEN <<"\\", Head(s)>> ELSE <<Head(s)>>)
         \o Escape(Tail(s))

Quote(s) == <<"\"">> \o Escape(s) \o <<"\"">>

RECURSIVE JsonDumps(_, _), DumpItems(_, _)
\* the items of a dict, from the first on, joined by the item separator
DumpItems(h, items) ==
    IF items = <<>> THEN Text(<<>>)
    ELSE LET v    == JsonDumps(h, Head(items)[2])
             rest == DumpItems(h, Tail(items))
         IN  IF ~v.ok THEN v
             ELSE IF ~rest.ok THEN rest
             ELSE Text(Quote(Head(items)[1]) \o KeySeparator \o v.s
                       \o (IF Tail(items) = <<>> THEN <<>> ELSE ItemSeparator)
                       \o rest.s)

JsonDumps(h, x) ==
    LET o == Deref(h, x)
    IN  CASE o.t = "None" -> Text(<<"n","u","l","l">>)
          [] o.t = "bool" -> Text(IF o.v THEN <<"t","r","u","e">> ELSE <<"f","a","l","s","e">>)
          [] o.t = "int"  -> Text(IF o.v < 0 THEN <<"-">> \o Digits(-o.v) ELSE Digits(o.v))
          [] o.t = "str"  -> Text(Quote(o.v))
          [] o.t = "dict" -> LET inner == DumpItems(h, o.v)
                             IN  IF inner.ok THEN Text(<<"{">> \o inner.s \o <<"}">>) ELSE inner
          [] OTHER        -> Raised("TypeError")

----------------------------------------------------------------------------
(* The heap.  Objects are reference counted: a cell is reclaimed as soon   *)
(* as no frame, no caller and no live object refers to it.                 *)

\* the cells the allocator prefers for objects created on behalf of invocation i
Arena(i) == ((i - 1) * CellsPerInvocation + 1)..(i * CellsPerInvocation)

Lowest(S) == CHOOSE a \in S : \A b \in S : a <= b

\* The allocator hands out the lowest free cell of the invocation's arena, or
\* of the whole heap when the arena is full.  An address is not observable by
\* the program, so the choice among free cells is immaterial.
FreeAddr(h, i) ==
    LET own == {a \in Arena(i) : h[a] = Free}
    IN  IF own # {} THEN Lowest(own) ELSE Lowest({a \in Addrs : h[a] = Free})

\* a dict display that hands out a live dict equal to the one asked for
NewDictInterned(h, i, items) ==
    LET same == {a \in Addrs : h[a] = PyDict(items)}
        a    == FreeAddr(h, i)
    IN  IF same # {}
        THEN [heap |-> h, ref |-> Ref(Lowest(same))]
        ELSE [heap |-> [h EXCEPT ![a] = PyDict(items)], ref |-> Ref(a)]

\* a dict display that builds a non-empty literal once and hands out that
\* object for as long as it lives
NewDictCached(h, i, items) ==
    LET built == {a \in Addrs : /\ h[a].t = "dict"
                                /\ items # <<>>
                                /\ Len(h[a].v) >= Len(items)
                                /\ SubSeq(h[a].v, 1, Len(items)) = items}
        a     == FreeAddr(h, i)
    IN  IF built # {}
        THEN [heap |-> h, ref |-> Ref(Lowest(built))]
        ELSE [heap |-> [h EXCEPT ![a] = PyDict(items)], ref |-> Ref(a)]

\* A dict display: a new dict object in a cell of its own.
NewDict(h, i, items) ==
    LET a == FreeAddr(h, i)
    IN  [heap |-> [h EXCEPT ![a] = PyDict(items)], ref |-> Ref(a)]

\* the addresses an object refers to directly
Children(o) ==
    IF o.t = "dict" THEN {o.v[n][2].v : n \in {m \in 1..Len(o.v) : IsRef(o.v[m][2])}}
    ELSE {}

RECURSIVE Reachable(_, _)
Reachable(h, as) ==
    LET more == as \cup UNION {Children(h[a]) : a \in as}
    IN  IF more = as THEN as ELSE Reachable(h, more)

\* reclaim every cell that cannot be reached from the roots
Collect(h, roots) ==
    LET live == Reachable(h, {x.v : x \in {r \in roots : IsRef(r)}})
    IN  [a \in Addrs |-> IF a \in live THEN h[a] ELSE Free]

\* The value of an object, references followed: a dict is the mapping from
\* its keys to the values of its items (dict equality ignores item order).
RECURSIVE View(_, _)
View(h, x) ==
    LET o == Deref(h, x)
    IN  IF o.t = "dict" THEN [k \in Keys(o) |-> View(h, GetItem(o, k))] ELSE o

----------------------------------------------------------------------------
(* The operands of the dict display that handler returns, each evaluated   *)
(* in the scope of handler, where event and context are bound.             *)

\* "isBase64Encoded": mirrors whether a request object came in
IsBase64EncodedFromEvent(event, context) == PyBool(IsRef(event))

\* "isBase64Encoded": False
IsBase64EncodedExpr(event, context) == PyBool(FALSE)

\* "statusCode": '200', a str
StatusCodeAsString(event, context) == PyStr(<<"2","0","0">>)

\* "statusCode": 400 for a missing event
StatusCodeFromEvent(event, context) == IF event = PyNone THEN PyInt(400) ELSE PyInt(200)

\* "statusCode": 200
StatusCodeExpr(event, context) == PyInt(200)

\* {'Content-Type': 'application/json'}
HeadersItemsContentType(event, context) == << <<s_Content_Type, PyStr(s_application_json)>> >>

\* {'content': 'application/json'}
HeadersItems(event, context) == << <<s_content, PyStr(s_application_json)>> >>

\* {}
MultiValueHeadersItems(event, context) == <<>>

\* {'message': 'Ok Boomer', 'context': context}
BodyObjectWithContext(event, context) ==
    PyDict(<< <<s_message, PyStr(s_Ok_Boomer)>>, <<s_context, context>> >>)

\* {'message': 'Ok Boomer'}, the argument of json.dumps
BodyObject(event, context) == PyDict(<< <<s_message, PyStr(s_Ok_Boomer)>> >>)

\* evaluating the headers after event['handled'] = True on a dict event
EvalHeadersMarkingEvent(h, i, event, context) ==
    LET r == NewDict(h, i, HeadersItems(event, context))
    IN  IF IsRef(event) /\ h[event.v].t = "dict"
        THEN [heap |-> [r.heap EXCEPT ![event.v] = SetItem(@, s_handled, PyBool(TRUE))],
              ref |-> r.ref]
        ELSE r

\* evaluating "headers": {...} allocates the dict and touches nothing else
EvalHeaders(h, i, event, context) == NewDict(h, i, HeadersItems(event, context))

\* evaluating "multiValueHeaders": {}
EvalMultiValueHeaders(h, i, event, context) == NewDict(h, i, MultiValueHeadersItems(event, context))

\* the outer dict display with the multiValueHeaders entry left out
EnvelopeItemsWithoutMultiValueHeaders(isBase64Encoded, statusCode, headers, multiValueHeaders, body) ==
    << <<s_isBase64Encoded, isBase64Encoded>>,
       <<s_statusCode, statusCode>>,
       <<s_headers, headers>>,
       <<s_body, body>> >>

\* the outer dict display, keys in source order
EnvelopeItems(isBase64Encoded, statusCode, headers, multiValueHeaders, body) ==
    << <<s_isBase64Encoded, isBase64Encoded>>,
       <<s_statusCode, statusCode>>,
       <<s_headers, headers>>,
       <<s_multiValueHeaders, multiValueHeaders>>,
       <<s_body, body>> >>

----------------------------------------------------------------------------
(* The host: the values it passes to handler, and what the caller that     *)
(* receives an envelope may do with it.                                    *)

s_httpMethod == <<"h","t","t","p","M","e","t","h","o","d">>

s_POST == <<"P","O","S","T">>

s_anything == <<"a","n","y","t","h","i","n","g">>

s_x_trace == <<"x","-","t","r","a","c","e">>

s_on == <<"o","n">>

\* null, the empty mapping, and a request with a method and a body
EventValues ==
    { PyNone,
      PyDict(<<>>),
      PyDict(<< <<s_httpMethod, PyStr(s_POST)>>, <<s_body, PyStr(s_anything)>> >>) }

\* null, the empty mapping, and the runtime's context object
ContextValues == { PyNone, PyDict(<<>>), PyObject("LambdaContext") }

\* An argument is passed by reference when it is a mutable object.
Pass(h, i, v) ==
    IF v.t \in {"dict", "object"}
    THEN LET a == FreeAddr(h, i) IN [heap |-> [h EXCEPT ![a] = v], ref |-> Ref(a)]
    ELSE [heap |-> h, ref |-> v]

----------------------------------------------------------------------------
VARIABLES
    pc,          \* per invocation: where it stands
    event,       \* per invocation: the first argument of handler
    context,     \* per invocation: the second argument of handler
    stack,       \* per invocation: the operands of the dict display evaluated so far
    ret,         \* per invocation: the value handler returned
    heap         \* the objects

vars == <<pc, event, context, stack, ret, heap>>

\* every value some frame or some caller still holds
Roots(ev, ctx, st, rt) ==
    UNION {{ev[i], ctx[i], rt[i]} \cup {st[i][n] : n \in 1..Len(st[i])} : i \in Invocations}

Init ==
    /\ pc = [i \in Invocations |-> "idle"]
    /\ event = [i \in Invocations |-> PyNone]
    /\ context = [i \in Invocations |-> PyNone]
    /\ stack = [i \in Invocations |-> <<>>]
    /\ ret = [i \in Invocations |-> PyNone]
    /\ heap = [a \in Addrs |-> Free]

\* The host calls handler(e, c).
Invoke(i, e, c) ==
    /\ pc[i] = "idle"
    /\ LET pe == Pass(heap, i, e)
           pcx == Pass(pe.heap, i, c)
       IN  /\ event' = [event EXCEPT ![i] = pe.ref]
           /\ context' = [context EXCEPT ![i] = pcx.ref]
           /\ heap' = pcx.heap
    /\ pc' = [pc EXCEPT ![i] = "headers"]
    /\ UNCHANGED <<stack, ret>>

\* "headers": {'content': 'application/json'}
BuildHeaders(i) ==
    /\ pc[i] = "headers"
    /\ LET r == EvalHeaders(heap, i, event[i], context[i])
       IN  /\ heap' = r.heap
           /\ stack' = [stack EXCEPT ![i] = Append(@, r.ref)]
    /\ pc' = [pc EXCEPT ![i] = "multiValueHeaders"]
    /\ UNCHANGED <<event, context, ret>>

\* "multiValueHeaders": {}
BuildMultiValueHeaders(i) ==
    /\ pc[i] = "multiValueHeaders"
    /\ LET r == EvalMultiValueHeaders(heap, i, event[i], context[i])
       IN  /\ heap' = r.heap
           /\ stack' = [stack EXCEPT ![i] = Append(@, r.ref)]
    /\ pc' = [pc EXCEPT ![i] = "body"]
    /\ UNCHANGED <<event, context, ret>>

\* 'body': json.dumps({'message': 'Ok Boomer'}).  The argument dict never
\* leaves the call, so it takes no cell.  An exception of the encoder is not
\* caught: it unwinds the frame and ends the invocation.
DumpsBody(i) ==
    /\ pc[i] = "body"
    /\ LET r == JsonDumps(heap, BodyObject(event[i], context[i]))
       IN  IF r.ok
           THEN /\ stack' = [stack EXCEPT ![i] = Append(@, PyStr(r.s))]
                /\ pc' = [pc EXCEPT ![i] = "return"]
                /\ heap' = heap
           ELSE /\ stack' = [stack EXCEPT ![i] = <<>>]
                /\ pc' = [pc EXCEPT ![i] = "raised"]
                /\ heap' = Collect(heap, Roots(event, context, stack', ret))
    /\ UNCHANGED <<event, context, ret>>

\* return {...}: the envelope is built from the evaluated operands
Return(i) ==
    /\ pc[i] = "return"
    /\ LET r == NewDict(heap, i, EnvelopeItems(IsBase64EncodedExpr(event[i], context[i]),
                                               StatusCodeExpr(event[i], context[i]),
                                               stack[i][1], stack[i][2], stack[i][3]))
       IN  /\ heap' = r.heap
           /\ ret' = [ret EXCEPT ![i] = r.ref]
    /\ stack' = [stack EXCEPT ![i] = <<>>]
    /\ pc' = [pc EXCEPT ![i] = "returned"]
    /\ UNCHANGED <<event, context>>

\* The caller overwrites statusCode in the envelope it received.
OverwriteStatusCode(i) ==
    /\ pc[i] = "returned"
    /\ heap' = [heap EXCEPT ![ret[i].v] = SetItem(@, s_statusCode, PyInt(500))]
    /\ pc' = [pc EXCEPT ![i] = "mutated"]
    /\ UNCHANGED <<event, context, stack, ret>>

\* The caller adds a header to the headers mapping of the envelope it received.
AddHeader(i) ==
    /\ pc[i] = "returned"
    /\ LET hdrs == GetItem(heap[ret[i].v], s_headers)
       IN  /\ IsRef(hdrs)
           /\ heap' = [heap EXCEPT ![hdrs.v] = SetItem(@, s_x_trace, PyStr(s_on))]
    /\ pc' = [pc EXCEPT ![i] = "mutated"]
    /\ UNCHANGED <<event, context, stack, ret>>

\* The host drops the arguments and the outcome of a finished invocation.
Discard(i) ==
    /\ pc[i] \in {"returned", "mutated", "raised"}
    /\ event' = [event EXCEPT ![i] = PyNone]
    /\ context' = [context EXCEPT ![i] = PyNone]
    /\ ret' = [ret EXCEPT ![i] = PyNone]
    /\ heap' = Collect(heap, Roots(event', context', stack, ret'))
    /\ pc' = [pc EXCEPT ![i] = "idle"]
    /\ UNCHANGED stack

\* the steps that execute code of handler
HandlerStep(i) ==
    \/ BuildHeaders(i)
    \/ BuildMultiValueHeaders(i)
    \/ DumpsBody(i)
    \/ Return(i)

Next ==
    \E i \in Invocations :
        \/ \E e \in EventValues, c \in ContextValues : Invoke(i, e, c)
        \/ BuildHeaders(i)
        \/ BuildMultiValueHeaders(i)
        \/ DumpsBody(i)
        \/ Return(i)
        \/ OverwriteStatusCode(i)
        \/ AddHeader(i)
        \/ Discard(i)

Spec == Init /\ [][Next]_vars

TypeOK ==
    /\ pc \in [Invocations -> {"idle", "headers", "multiValueHeaders", "body", "return",
                               "returned", "mutated", "raised"}]
    /\ \A i \in Invocations : Len(stack[i]) <= 3

----------------------------------------------------------------------------
(* A JSON reader, for stating what the body parses to: objects, strings    *)
(* with the escapes the encoder writes, null, true and false, with any     *)
(* blanks between tokens.  A result is [ok, v, pos]: the value read and    *)
(* the position after it.                                                  *)

Fail == [ok |-> FALSE, v |-> PyNone, pos |-> 0]

Parsed(v, p) == [ok |-> TRUE, v |-> v, pos |-> p]

RECURSIVE SkipBlanks(_, _)
SkipBlanks(s, p) == IF p <= Len(s) /\ s[p] = " " THEN SkipBlanks(s, p + 1) ELSE p

StartsWith(s, p, w) == p + Len(w) - 1 <= Len(s) /\ SubSeq(s, p, p + Len(w) - 1) = w

\* the characters of a string whose opening quote has been read
RECURSIVE ParseChars(_, _, _)
ParseChars(s, p, acc) ==
    IF p > Len(s) THEN Fail
    ELSE IF s[p] = "\"" THEN Parsed(acc, p + 1)
    ELSE IF s[p] = "\\"
         THEN IF p + 1 <= Len(s) /\ s[p + 1] \in {"\"", "\\"}
              THEN ParseChars(s, p + 2, Append(acc, s[p + 1]))
              ELSE Fail
    ELSE ParseChars(s, p + 1, Append(acc, s[p]))

RECURSIVE ParseValue(_, _), ParseMembers(_, _, _)
\* the members of an object from position p on, up to the closing brace
ParseMembers(s, p, acc) ==
    LET q == SkipBlanks(s, p)
    IN  IF ~StartsWith(s, q, <<"\"">>) THEN Fail
        ELSE LET k == ParseChars(s, q + 1, <<>>)
                 c == SkipBlanks(s, k.pos)
             IN  IF ~k.ok \/ ~StartsWith(s, c, <<":">>) THEN Fail
                 ELSE LET x == ParseValue(s, c + 1)
                          e == SkipBlanks(s, x.pos)
                      IN  IF ~x.ok THEN Fail
                          ELSE IF StartsWith(s, e, <<",">>)
                               THEN ParseMembers(s, e + 1, Append(acc, <<k.v, x.v>>))
                          ELSE IF StartsWith(s, e, <<"}">>)
                               THEN Parsed(PyDict(Append(acc, <<k.v, x.v>>)), e + 1)
                          ELSE Fail

ParseValue(s, p) ==
    LET q == SkipBlanks(s, p)
    IN  IF StartsWith(s, q, <<"\"">>)
        THEN LET r == ParseChars(s, q + 1, <<>>)
             IN  IF r.ok THEN Parsed(PyStr(r.v), r.pos) ELSE Fail
        ELSE IF StartsWith(s, q, <<"{">>)
        THEN IF StartsWith(s, SkipBlanks(s, q + 1), <<"}">>)
             THEN Parsed(PyDict(<<>>), SkipBlanks(s, q + 1) + 1)
             ELSE ParseMembers(s, q + 1, <<>>)
        ELSE IF StartsWith(s, q, <<"n","u","l","l">>) THEN Parsed(PyNone, q + 4)
        ELSE IF StartsWith(s, q, <<"t","r","u","e">>) THEN Parsed(PyBool(TRUE), q + 4)
        ELSE IF StartsWith(s, q, <<"f","a","l","s","e">>) THEN Parsed(PyBool(FALSE), q + 5)
        ELSE Fail

\* the whole text is one JSON value
JsonLoads(s) ==
    LET r == ParseValue(s, 1)
    IN  IF r.ok /\ SkipBlanks(s, r.pos) = Len(s) + 1 THEN r ELSE Fail

----------------------------------------------------------------------------
(* What the claims speak of. *)

\* invocation i has returned and its caller has not touched the envelope
Returned(i) == pc[i] = "returned"

\* invocation i is executing handler
InProgress(i) == pc[i] \in {"headers", "multiValueHeaders", "body", "return"}

\* the envelope object invocation i returned
Envelope(i) == heap[ret[i].v]

\* the object held in field k of that envelope
Field(i, k) == Deref(heap, GetItem(Envelope(i), k))

\* the text {"message": "Ok Boomer"}
ExpectedBody ==
    <<"{", "\"", "m","e","s","s","a","g","e", "\"", ":", " ",
      "\"", "O","k"," ","B","o","o","m","e","r", "\"", "}">>

\* the value of the envelope of section 3 of the specification
FixedEnvelope ==
    (s_isBase64Encoded :> PyBool(FALSE))
    @@ (s_statusCode :> PyInt(200))
    @@ (s_headers :> (s_content :> PyStr(s_application_json)))
    @@ (s_multiValueHeaders :> <<>>)
    @@ (s_body :> PyStr(ExpectedBody))

\* the cells invocation i can reach from its arguments, its stack and its result
Owned(i) ==
    Reachable(heap, {x.v : x \in {r \in {event[i], context[i], ret[i]}
                                          \cup {stack[i][n] : n \in 1..Len(stack[i])} : IsRef(r)}})

\* What handler(e, c) returns when it runs from an empty heap with nothing
\* else going on: the four steps one after the other.
RunAlone(e, c) ==
    LET h0  == [a \in Addrs |-> Free]
        pe  == Pass(h0, 1, e)
        pcx == Pass(pe.heap, 1, c)
        hd  == EvalHeaders(pcx.heap, 1, pe.ref, pcx.ref)
        mv  == EvalMultiValueHeaders(hd.heap, 1, pe.ref, pcx.ref)
        bd  == JsonDumps(mv.heap, BodyObject(pe.ref, pcx.ref))
        en  == NewDict(mv.heap, 1, EnvelopeItems(IsBase64EncodedExpr(pe.ref, pcx.ref),
                                                 StatusCodeExpr(pe.ref, pcx.ref),
                                                 hd.ref, mv.ref, PyStr(bd.s)))
    IN  IF bd.ok THEN View(en.heap, en.ref) ELSE bd

----------------------------------------------------------------------------
\* C1: whatever event and context were passed, the envelope handler returns
\* has a statusCode field, and it is the integer 200.
C1_StatusCode200 ==
    \A i \in Invocations :
        Returned(i) =>
            /\ HasKey(Envelope(i), s_statusCode)
            /\ Field(i, s_statusCode).t = "int"
            /\ Field(i, s_statusCode).v = 200

\* a null event with a null context, and an empty mapping with the runtime's
\* context object, have both been answered
C1_Witness ==
    \E i, j \in Invocations :
        /\ Returned(i) /\ event[i] = PyNone /\ context[i] = PyNone
        /\ Returned(j) /\ View(heap, event[j]) = <<>> /\ IsRef(event[j])
        /\ Deref(heap, context[j]) = PyObject("LambdaContext")
        /\ Field(i, s_statusCode).v = 200 /\ Field(j, s_statusCode).v = 200

\* C2: whatever the inputs, the body of the returned envelope is the str
\* {"message": "Ok Boomer"} character for character, and reading it as JSON
\* gives the object with the one key message, mapped to Ok Boomer.
C2_FixedBody ==
    \A i \in Invocations :
        Returned(i) =>
            /\ HasKey(Envelope(i), s_body)
            /\ Field(i, s_body).t = "str"
            /\ Field(i, s_body).v = ExpectedBody
            /\ JsonLoads(Field(i, s_body).v).ok
            /\ View(heap, JsonLoads(Field(i, s_body).v).v) = (s_message :> PyStr(s_Ok_Boomer))

\* a request with a method and a body has been answered with a body that
\* parses
C2_Witness ==
    \E i \in Invocations :
        /\ Returned(i)
        /\ IsRef(event[i]) /\ HasKey(heap[event[i].v], s_httpMethod)
        /\ Len(Field(i, s_body).v) = 24
        /\ JsonLoads(Field(i, s_body).v).ok

\* C3: whatever the inputs, headers of the returned envelope is the mapping
\* with the single entry content -> application/json, and multiValueHeaders
\* is the empty mapping.
C3_FixedHeaders ==
    \A i \in Invocations :
        Returned(i) =>
            /\ HasKey(Envelope(i), s_headers)
            /\ Field(i, s_headers).t = "dict"
            /\ Field(i, s_headers).v = << <<s_content, PyStr(s_application_json)>> >>
            /\ HasKey(Envelope(i), s_multiValueHeaders)
            /\ Field(i, s_multiValueHeaders).t = "dict"
            /\ Field(i, s_multiValueHeaders).v = <<>>

\* an invocation has returned whose headers have the key content and not
\* the key Content-Type
C3_Witness ==
    \E i \in Invocations :
        /\ Returned(i)
        /\ Keys(Field(i, s_headers)) = {s_content}
        /\ s_Content_Type \notin Keys(Field(i, s_headers))
        /\ Keys(Field(i, s_multiValueHeaders)) = {}

\* C4: whatever the inputs, isBase64Encoded of the returned envelope is the
\* boolean false.
C4_NotBase64 ==
    \A i \in Invocations :
        Returned(i) =>
            /\ HasKey(Envelope(i), s_isBase64Encoded)
            /\ Field(i, s_isBase64Encoded) = PyBool(FALSE)

\* a request with a body and a request without an event have both been
\* answered
C4_Witness ==
    \E i, j \in Invocations :
        /\ Returned(i) /\ IsRef(event[i]) /\ HasKey(heap[event[i].v], s_body)
        /\ Returned(j) /\ event[j] = PyNone
        /\ Field(i, s_isBase64Encoded).t = "bool" /\ Field(j, s_isBase64Encoded).t = "bool"

\* C5: any two envelopes handler has returned are equal in every field,
\* whatever the inputs of the two invocations were.
C5_InputIndependence ==
    \A i, j \in Invocations :
        Returned(i) /\ Returned(j) => View(heap, ret[i]) = View(heap, ret[j])

\* two invocations with different events and different contexts have both
\* returned, as two distinct objects
C5_Witness ==
    \E i, j \in Invocations :
        /\ Returned(i) /\ Returned(j)
        /\ View(heap, event[i]) # View(heap, event[j])
        /\ View(heap, context[i]) # View(heap, context[j])
        /\ ret[i] # ret[j]

\* C6: no invocation ends with an exception, whatever its event and context
\* are; an invocation that has ended has handed a dict, the envelope, to its
\* caller.
C6_Total ==
    \A i \in Invocations :
        /\ pc[i] # "raised"
        /\ pc[i] \in {"returned", "mutated"} => IsRef(ret[i]) /\ heap[ret[i].v].t = "dict"

\* handler(None, None) has returned an envelope
C6_Witness ==
    \E i \in Invocations :
        /\ Returned(i) /\ event[i] = PyNone /\ context[i] = PyNone
        /\ IsRef(ret[i]) /\ Envelope(i).t = "dict"

\* C7: invocations in flight together share no object, and what each one
\* returns is what it returns when it runs alone from an empty heap.
C7_NoSharedState ==
    \A i \in Invocations :
        /\ \A j \in Invocations \ {i} : Owned(i) \cap Owned(j) = {}
        /\ Returned(i) =>
               View(heap, ret[i]) = RunAlone(Deref(heap, event[i]), Deref(heap, context[i]))

\* one invocation has returned while another is part-way through the dict
\* display, each holding cells of its own
C7_Witness ==
    \E i, j \in Invocations :
        /\ Returned(i) /\ pc[j] = "body"
        /\ Cardinality(Owned(i)) >= 3 /\ Cardinality(Owned(j)) >= 2

\* C8: a step of handler changes no object that existed before the step, so
\* the event and the context it was given are as they were; all it does is
\* create objects of its own.
C8_NoSideEffect ==
    [][\A i \in Invocations :
           InProgress(i) /\ pc'[i] # pc[i] =>
               /\ \A a \in Addrs : heap[a] # Free => heap'[a] = heap[a]
               /\ event' = event
               /\ context' = context
               /\ \A j \in Invocations :
                      /\ View(heap', event'[j]) = View(heap, event[j])
                      /\ View(heap', context'[j]) = View(heap, context[j])]_vars

\* handler has run to its end on an event that is a mapping with entries,
\* and the mapping is as the host passed it
C8_Witness ==
    \E i \in Invocations :
        /\ Returned(i)
        /\ IsRef(event[i])
        /\ Keys(heap[event[i].v]) = {s_httpMethod, s_body}
        /\ IsRef(context[i])

\* C9: the returned envelope has the five fields isBase64Encoded,
\* statusCode, headers, multiValueHeaders and body, each once, and no other.
C9_FiveFields ==
    \A i \in Invocations :
        Returned(i) =>
            /\ Envelope(i).t = "dict"
            /\ Keys(Envelope(i)) =
                   {s_isBase64Encoded, s_statusCode, s_headers, s_multiValueHeaders, s_body}
            /\ Len(Envelope(i).v) = 5

\* an envelope has been returned for an empty event
C9_Witness ==
    \E i \in Invocations :
        /\ Returned(i)
        /\ IsRef(event[i]) /\ Keys(heap[event[i].v]) = {}
        /\ Cardinality(Keys(Envelope(i))) = 5

\* C10: while a caller holds an envelope it has altered, every envelope
\* another invocation has returned is the fixed one, and the altered objects
\* are not part of it.
C10_NoLeak ==
    \A i, j \in Invocations :
        pc[j] = "mutated" /\ Returned(i) =>
            /\ View(heap, ret[i]) = FixedEnvelope
            /\ Owned(i) \cap Owned(j) = {}

\* one caller has added a header to its envelope, and another invocation has
\* returned the fixed envelope
C10_Witness ==
    \E i, j \in Invocations :
        /\ pc[j] = "mutated"
        /\ HasKey(Field(j, s_headers), s_x_trace)
        /\ Returned(i)
        /\ View(heap, ret[i]) = FixedEnvelope

====
